---- MODULE Spec2Model ----
(***************************************************************************)
(* Model of the Redis-backed cluster peer of                               *)
(* pkg/services/ngalert/notifier/redis_peer.go.                            *)
(*                                                                         *)
(* Strings are sequences of character codes, so that concatenation         *)
(* (withPrefix), the last-character test of the prefix normalisation and   *)
(* the lexicographic order of sort.Strings are computed, not assumed.      *)
(* Time is in whole seconds.                                               *)
(***************************************************************************)
EXTENDS Integers, Sequences, FiniteSets, TLC

VARIABLES
    prefix,             \* redisPeer.prefix, after the constructor's normalisation
    self,               \* redisPeer.name of the peer under study; the other peers are its environment
    clock,              \* wall clock, seconds
    store,              \* broker keys: key -> [val |-> decimal text, exp |-> expiry time]
    netUp,              \* the broker is reachable from the peer
    downSince,          \* while it is not: the time at which the outage began
    crashed,            \* the peer's process panicked
    hbpc,               \* per peer: position of heartbeatLoop
    position,           \* redisPeer.position
    positionFetchedAt,  \* redisPeer.positionFetchedAt
    ppc,                \* position of a Position() call of the peer
    scanned,            \* the SCAN reply of the current or last Members() call of Position()
    lastMembers,        \* list returned by the last completed Members() call of Position()
    lastRet             \* value returned by the last completed Position()

VARIABLES
    shutdownc,          \* redisPeer.shutdownc: "open" or "closed"
    sdpc,               \* position of the Shutdown() call
    delOk,              \* the DEL of Shutdown() succeeded
    readyc,             \* redisPeer.readyc: "open" (not yet closed) or "closed"
    readyCloses,        \* number of close(p.readyc) executed
    spc,                \* position of the Settle() call
    sctx,               \* the context given to Settle: "live", "canceled" or "deadline"
    nPeers,             \* Settle: nPeers
    nOkay,              \* Settle: nOkay
    totalPolls,         \* Settle: totalPolls
    settleScan,         \* Settle: the SCAN reply of the poll in progress
    obs,                \* the counts len(p.Members()) the polls of Settle observed, in order
    settlePath,         \* the path Settle returned by: "none", "normal" or "cancelled"
    wpc,                \* position of a WaitReady() call
    wctx,               \* the context given to WaitReady
    wret                \* what WaitReady returned: "none", "nil", or the context's error

VARIABLES
    states,             \* redisPeer.states: state key -> content of the state object
    subq,               \* redisPeer.subs: channel key -> messages delivered and not yet received
    messagesSent,       \* messagesSent counter, by msg_type
    published,          \* what the peer sent with PUBLISH, in order: [channel, payload, ok]
    mergeLog,           \* the Merge calls made on the peer's states, in order: [key, data]
    lastReq,            \* the last message fullStateReqReceiveLoop handled, and the publishes it made
    rpc,                \* channel key -> position of the receive loop of that subscription
    fpc,                \* position of fullStateSyncPublishLoop
    remoteSent,         \* the messages other peers published that reached the peer's subscriptions
    wakeAt              \* channel key -> after a failed receive of its loop, until the loop goes on: the time from which it receives again

VARIABLES
    hpc,                \* position of a GetHealthScore() call
    hSize,              \* GetHealthScore() in progress: size, what its ClusterSize() call returned
    hScan,              \* GetHealthScore() in progress: the SCAN reply of its Members() call
    hMembers,           \* list the Members() call of the last GetHealthScore() returned, no call being in progress
    hScore,             \* value the last GetHealthScore() returned, no call being in progress
    mtx,                \* redisPeer.mtx: << >> when free, <<k>> while AddState(k) holds it exclusively
    ctor,               \* newRedisPeer: "notcalled", "failed" (error returned) or "ok" (peer returned)
    pinged              \* the result of the PING of newRedisPeer: "none", "ok" or "err"

memberVars == <<position, positionFetchedAt, ppc, scanned, lastMembers, lastRet>>
brokerVars == <<prefix, self, clock, store, netUp, downSince, crashed>>
hbVars == <<hbpc>>
sdVars == <<shutdownc, sdpc, delOk>>
settleVars == <<readyc, readyCloses, spc, sctx, nPeers, nOkay, totalPolls, settleScan, obs, settlePath>>
waitVars == <<wpc, wctx, wret>>
pubsubVars == <<states, subq, rpc, fpc, messagesSent, published, mergeLog, lastReq, remoteSent, wakeAt>>
healthVars == <<hpc, hSize, hScan, hMembers, hScore>>
lockVars == <<mtx>>
ctorVars == <<ctor, pinged>>

vars == <<brokerVars, hbVars, memberVars, healthVars, lockVars, ctorVars, sdVars, settleVars, waitVars, pubsubVars>>

----------------------------------------------------------------------------
(* Bounds of the model *)

MaxTicks == 3
MaxScanLen == 2
MaxPolls == 5
MaxRemote == 2
MaxPublished == 3
MaxParts == 2
MaxSleepSteps == 3

----------------------------------------------------------------------------
(* Program constants *)

Colon == 58
heartbeatInterval == 5
heartbeatTimeout == 60
positionValidFor == 60
heartbeatTTL == 300
NumOkayRequired == 3
networkRetryInterval == 10

\* One clock step of the model: half the heartbeat timeout.
TickStep == heartbeatTimeout \div 2

\* "a", "b": the names of the peers (cfg.name)
NameA == <<97>>
NameB == <<98>>
Names == {NameA, NameB}

\* cfg.prefix values: "", "am", "am:"
CfgPrefixes == {<< >>, <<97, 109>>, <<97, 109, Colon>>}

\* time.Time{} : the zero time is before every now - positionValidFor
ZeroTime == 0 - (positionValidFor + 1)

----------------------------------------------------------------------------
(* Strings *)

\* newRedisPeer: make sure that the prefix uses a colon at the end
NormalizePrefix(cp) ==
    IF cp # << >> /\ cp[Len(cp)] # Colon THEN cp \o <<Colon>> ELSE cp

withPrefix(str) == prefix \o str

HasPrefix(s, pre) ==
    /\ Len(pre) <= Len(s)
    /\ \A i \in 1..Len(pre) : s[i] = pre[i]

\* SCAN ... MATCH <prefix>* : glob match of the pattern prefix + peerPattern
MatchPattern(k) == HasPrefix(k, withPrefix(<< >>))

\* Go string comparison, byte-wise lexicographic
RECURSIVE StrLess(_, _)
StrLess(s, t) ==
    IF t = << >> THEN FALSE
    ELSE IF s = << >> THEN TRUE
    ELSE IF s[1] # t[1] THEN s[1] < t[1]
    ELSE StrLess(Tail(s), Tail(t))

RECURSIVE InsertSorted(_, _)
InsertSorted(x, sq) ==
    IF sq = << >> THEN <<x>>
    ELSE IF StrLess(x, sq[1]) THEN <<x>> \o sq
    ELSE <<sq[1]>> \o InsertSorted(x, Tail(sq))

\* sort.Strings
RECURSIVE SortStrings(_)
SortStrings(sq) ==
    IF sq = << >> THEN << >>
    ELSE InsertSorted(sq[1], SortStrings(Tail(sq)))

\* decimal text of a non-negative integer, as the broker stores an int64 value
RECURSIVE FormatInt(_)
FormatInt(n) ==
    IF n < 10 THEN <<48 + n>>
    ELSE FormatInt(n \div 10) \o <<48 + (n % 10)>>

IsDigit(c) == c >= 48 /\ c <= 57

RECURSIVE DigitsValue(_)
DigitsValue(s) ==
    IF s = << >> THEN 0
    ELSE 10 * DigitsValue(SubSeq(s, 1, Len(s) - 1)) + (s[Len(s)] - 48)

\* strconv.ParseInt(val, 10, 64)
ParseInt(s) ==
    IF s # << >> /\ \A i \in 1..Len(s) : IsDigit(s[i])
    THEN [ok |-> TRUE, val |-> DigitsValue(s)]
    ELSE [ok |-> FALSE, val |-> 0]

----------------------------------------------------------------------------
(* Broker *)

PeerKey(p) == withPrefix(p)

\* keys present in the broker: expired keys are removed when the clock moves
LiveStore(st, now) == [k \in {x \in DOMAIN st : st[x].exp > now} |-> st[k]]

SeqsUpTo(S, n) == UNION {[1..m -> S] : m \in 0..n}

\* replies a single SCAN 0 MATCH <prefix>* COUNT 100 may give: any sequence of
\* present matching keys, not necessarily complete, a key possibly repeated
ScanReplies == SeqsUpTo({k \in DOMAIN store : MatchPattern(k)}, MaxScanLen)

\* SET key value EX ttl
BrokerSet(st, k, v, now) == [x \in DOMAIN st \cup {k} |->
                                IF x = k THEN [val |-> v, exp |-> now + heartbeatTTL] ELSE st[x]]

\* DEL key
BrokerDel(st, k) == [x \in DOMAIN st \ {k} |-> st[x]]

----------------------------------------------------------------------------
(* Members() *)

\* FilterPeers without the heartbeat timeout test
RECURSIVE FilterPeers_NoTimeout(_, _, _)
FilterPeers_NoTimeout(members, st, now) ==
    IF members = << >> THEN << >>
    ELSE LET peer == members[1]
             rest == FilterPeers_NoTimeout(Tail(members), st, now)
         IN IF peer \notin DOMAIN st THEN rest
            ELSE <<peer>> \o rest

\* the loop of Members() over the SCAN reply and the MGET values
RECURSIVE FilterPeers(_, _, _)
FilterPeers(members, st, now) ==
    IF members = << >> THEN << >>
    ELSE LET peer == members[1]
             rest == FilterPeers(Tail(members), st, now)
         IN IF peer \notin DOMAIN st THEN rest
            ELSE IF ParseInt(st[peer].val).val < now - heartbeatTimeout THEN rest
            ELSE <<peer>> \o rest

\* strconv.ParseInt failed for a value of the reply: panic(err)
MembersPanics(members, st) ==
    \E i \in 1..Len(members) :
        members[i] \in DOMAIN st /\ ~ParseInt(st[members[i]].val).ok

\* Members() with its loop starting at the second key of the SCAN reply
Members_SkipsFirst(members, st, now) ==
    SortStrings(FilterPeers(IF members = << >> THEN << >> ELSE Tail(members), st, now))

\* Members(), from the SCAN reply on
Members(members, st, now) == SortStrings(FilterPeers(members, st, now))

----------------------------------------------------------------------------
(* Position() *)

\* index (from 0) of the first entry of members equal to name, -1 if none
RECURSIVE IndexOf(_, _, _)
IndexOf(members, name, i) ==
    IF i > Len(members) THEN 0 - 1
    ELSE IF members[i] = name THEN i - 1
    ELSE IndexOf(members, name, i + 1)

\* the string Position() compares the entries of the member list with
SelfEntry == self

\* UseCached with a window that includes its end
UseCached_NonStrict(members, now) ==
    Len(members) = 0 /\ positionFetchedAt >= now - positionValidFor

\* len(members) == 0 && p.positionFetchedAt.After(time.Now().Add(-p.positionValidFor))
UseCached(members, now) ==
    Len(members) = 0 /\ positionFetchedAt > now - positionValidFor

\* PositionFinish writing the cache also when the own name is not found
PositionFinish_CachesDefault(reply, members) ==
    LET i == IndexOf(members, SelfEntry, 1)
        ret == IF UseCached(members, clock) THEN position
               ELSE IF i >= 0 THEN i ELSE 0
    IN /\ lastRet' = ret
       /\ position' = ret
       /\ positionFetchedAt' = IF UseCached(members, clock) THEN positionFetchedAt ELSE clock
       /\ scanned' = reply
       /\ lastMembers' = members
       /\ ppc' = "idle"

\* Position(), from the list Members() returned on
PositionFinish(reply, members) ==
    LET i == IndexOf(members, SelfEntry, 1)
        found == ~UseCached(members, clock) /\ i >= 0
    IN /\ lastRet' = IF UseCached(members, clock) THEN position
                      ELSE IF i >= 0 THEN i ELSE 0
       /\ position' = IF found THEN i ELSE position
       /\ positionFetchedAt' = IF found THEN clock ELSE positionFetchedAt
       /\ scanned' = reply
       /\ lastMembers' = members
       /\ ppc' = "idle"

\* Position(): the SCAN of Members(). A SCAN error or an empty reply makes
\* Members() return the empty list at once.
PositionScan ==
    /\ ~crashed
    /\ ppc = "idle"
    /\ \/ /\ ~netUp
          /\ PositionFinish(<< >>, << >>)
       \/ /\ netUp
          /\ \E reply \in ScanReplies :
                IF reply = << >>
                THEN PositionFinish(<< >>, << >>)
                ELSE /\ ppc' = "mget"
                     /\ scanned' = reply
                     /\ UNCHANGED <<position, positionFetchedAt, lastMembers, lastRet>>
    /\ UNCHANGED <<brokerVars, hbVars, healthVars, lockVars, ctorVars, sdVars, settleVars, waitVars, pubsubVars>>

\* Position(): the MGET of Members(), the filter, the sort and the scan for
\* the own name. An MGET error leaves values.Val() empty and the index
\* expression values.Val()[i] panics; so does an unparsable value.
PositionMGet ==
    /\ ~crashed
    /\ ppc = "mget"
    /\ IF ~netUp \/ MembersPanics(scanned, store)
       THEN /\ crashed' = TRUE
            /\ UNCHANGED <<prefix, self, clock, store, netUp, downSince, memberVars>>
       ELSE /\ PositionFinish(scanned, Members(scanned, store, clock))
            /\ UNCHANGED brokerVars
    /\ UNCHANGED <<hbVars, healthVars, lockVars, ctorVars, sdVars, settleVars, waitVars, pubsubVars>>

----------------------------------------------------------------------------
(* ClusterSize() and GetHealthScore() *)

\* ClusterSize(): the number of keys of the SCAN reply (0 on a SCAN error)
ClusterSize(reply) == Len(reply)

\* HealthScore without the test size > members
HealthScore_Unclamped(size, members) == size - members

\* GetHealthScore(): size - members if size > members, else 0
HealthScore(size, members) == IF size > members THEN size - members ELSE 0

\* GetHealthScore(): p.Members() returned the list members
HealthFinish(members) ==
    /\ hMembers' = members
    /\ hScore' = HealthScore(hSize, Len(members))
    /\ hpc' = "idle"
    /\ hSize' = 0
    /\ hScan' = << >>

\* GetHealthScore(): size := p.ClusterSize(), the first SCAN
HealthSize ==
    /\ ~crashed
    /\ hpc = "idle"
    /\ hpc' = "scan"
    /\ hSize' \in IF netUp THEN {ClusterSize(reply) : reply \in ScanReplies} ELSE {0}
    /\ hMembers' = << >>
    /\ hScore' = 0
    /\ UNCHANGED hScan
    /\ UNCHANGED <<brokerVars, hbVars, memberVars, lockVars, ctorVars, sdVars, settleVars, waitVars, pubsubVars>>

\* GetHealthScore(): the SCAN of p.Members(), a second query
HealthScan ==
    /\ ~crashed
    /\ hpc = "scan"
    /\ \/ /\ ~netUp
          /\ HealthFinish(<< >>)
       \/ /\ netUp
          /\ \E reply \in ScanReplies :
                IF reply = << >>
                THEN HealthFinish(<< >>)
                ELSE /\ hpc' = "mget"
                     /\ hScan' = reply
                     /\ UNCHANGED <<hSize, hMembers, hScore>>
    /\ UNCHANGED <<brokerVars, hbVars, memberVars, lockVars, ctorVars, sdVars, settleVars, waitVars, pubsubVars>>

\* GetHealthScore(): the MGET of p.Members() and the result
HealthMGet ==
    /\ ~crashed
    /\ hpc = "mget"
    /\ IF ~netUp \/ MembersPanics(hScan, store)
       THEN /\ crashed' = TRUE
            /\ UNCHANGED <<prefix, self, clock, store, netUp, downSince, healthVars>>
       ELSE /\ HealthFinish(Members(hScan, store, clock))
            /\ UNCHANGED brokerVars
    /\ UNCHANGED <<hbVars, memberVars, lockVars, ctorVars, sdVars, settleVars, waitVars, pubsubVars>>

----------------------------------------------------------------------------
(* heartbeatLoop *)

\* case <-ticker.C: the SET of the own key is sent
HeartbeatTick(p) ==
    /\ p = self => ~crashed
    /\ hbpc[p] = "select"
    /\ hbpc' = [hbpc EXCEPT ![p] = "set"]
    /\ UNCHANGED <<brokerVars, memberVars, healthVars, lockVars, ctorVars, sdVars, settleVars, waitVars, pubsubVars>>

\* the SET reaches the broker, or fails and is logged
HeartbeatSet(p) ==
    /\ p = self => ~crashed
    /\ hbpc[p] = "set"
    /\ hbpc' = [hbpc EXCEPT ![p] = "select"]
    /\ store' = IF p = self => netUp
                THEN BrokerSet(store, PeerKey(p), FormatInt(clock), clock)
                ELSE store
    /\ UNCHANGED <<prefix, self, clock, netUp, downSince, crashed, memberVars, healthVars, lockVars, ctorVars, sdVars, settleVars, waitVars, pubsubVars>>

----------------------------------------------------------------------------
(* Wire envelopes: clusterpb.Part and clusterpb.FullState *)

\* a length-delimited field: tag, length, bytes
LenField(tag, bytes) == <<tag, Len(bytes)>> \o bytes

\* a string or bytes field of a proto3 message: left out when empty
OptField(tag, bytes) == IF bytes = << >> THEN << >> ELSE LenField(tag, bytes)

\* proto.Marshal(&clusterpb.Part{Key: key, Data: data})
MarshalPart(key, data) == OptField(10, key) \o OptField(18, data)

RECURSIVE ConcatParts(_)
ConcatParts(parts) ==
    IF parts = << >> THEN << >>
    ELSE LenField(10, MarshalPart(parts[1].Key, parts[1].Data)) \o ConcatParts(Tail(parts))

\* proto.Marshal(&clusterpb.FullState{Parts: parts})
MarshalFullState(parts) == ConcatParts(parts)

\* the length-delimited fields of a message, in order; ok is FALSE if the
\* bytes are cut short
RECURSIVE ParseFields(_)
ParseFields(bs) ==
    IF bs = << >> THEN [ok |-> TRUE, fields |-> << >>]
    ELSE IF Len(bs) < 2 THEN [ok |-> FALSE, fields |-> << >>]
    ELSE IF Len(bs) < 2 + bs[2] THEN [ok |-> FALSE, fields |-> << >>]
    ELSE LET rest == ParseFields(SubSeq(bs, 3 + bs[2], Len(bs)))
         IN [ok |-> rest.ok,
             fields |-> <<[tag |-> bs[1], val |-> SubSeq(bs, 3, 2 + bs[2])]>> \o rest.fields]

\* the value of the last field with the tag, empty if there is none
RECURSIVE LastField(_, _)
LastField(fields, tag) ==
    IF fields = << >> THEN << >>
    ELSE IF fields[Len(fields)].tag = tag THEN fields[Len(fields)].val
    ELSE LastField(SubSeq(fields, 1, Len(fields) - 1), tag)

\* UnmarshalPart losing the Key field
UnmarshalPart_KeyLost(bs) ==
    LET pf == ParseFields(bs)
    IN IF pf.ok /\ \A i \in 1..Len(pf.fields) : pf.fields[i].tag \in {10, 18}
       THEN [ok |-> TRUE, Key |-> << >>, Data |-> LastField(pf.fields, 18)]
       ELSE [ok |-> FALSE, Key |-> << >>, Data |-> << >>]

\* proto.Unmarshal(payload, &part)
UnmarshalPart(bs) ==
    LET pf == ParseFields(bs)
    IN IF pf.ok /\ \A i \in 1..Len(pf.fields) : pf.fields[i].tag \in {10, 18}
       THEN [ok |-> TRUE, Key |-> LastField(pf.fields, 10), Data |-> LastField(pf.fields, 18)]
       ELSE [ok |-> FALSE, Key |-> << >>, Data |-> << >>]

\* proto.Unmarshal(payload, &fs)
UnmarshalFullState(bs) ==
    LET pf == ParseFields(bs)
        n == Len(pf.fields)
    IN IF /\ pf.ok
          /\ \A i \in 1..n : pf.fields[i].tag = 10 /\ UnmarshalPart(pf.fields[i].val).ok
       THEN [ok |-> TRUE,
             Parts |-> [i \in 1..n |-> [Key |-> UnmarshalPart(pf.fields[i].val).Key,
                                        Data |-> UnmarshalPart(pf.fields[i].val).Data]]]
       ELSE [ok |-> FALSE, Parts |-> << >>]

----------------------------------------------------------------------------
(* State objects (cluster.State): a set of items that only grows *)

Range(sq) == {sq[i] : i \in 1..Len(sq)}

\* state.Merge(data) reports an error: the data holds the item 0
MergeFails(data) == 0 \in Range(data)

\* the content of a state after a Merge(data) that reported no error
MergeInto(content, data) == content \cup Range(data)

RECURSIVE SetToSeq(_)
SetToSeq(S) ==
    IF S = {} THEN << >>
    ELSE LET m == CHOOSE x \in S : \A y \in S : x <= y
         IN <<m>> \o SetToSeq(S \ {m})

\* state.MarshalBinary()
MarshalBinary(content) == SetToSeq(content)

\* state.MarshalBinary() returns an error: the state holds the item 2
MarshalFails(content) == 2 \in content

\* b, err := s.MarshalBinary(): b is nil when err is not
MarshalResult(content) ==
    IF MarshalFails(content)
    THEN [err |-> TRUE, b |-> << >>]
    ELSE [err |-> FALSE, b |-> MarshalBinary(content)]

----------------------------------------------------------------------------
(* Channels *)

\* "full_state"
fullStateChannel == <<102, 117, 108, 108, 95, 115, 116, 97, 116, 101>>
\* fullStateChannel + ":request"
fullStateChannelReq == fullStateChannel \o <<Colon, 114, 101, 113, 117, 101, 115, 116>>

\* "n": the state key the peers register
StateKeys == {<<110>>}

\* payloads of Broadcast calls
Datas == {<<1>>, <<2>>, <<0>>}

\* PUBLISH channel payload, seen from the peer: the broker hands the message
\* to every subscription on that channel, those of the publisher included.
\* A subscription that is cut off from the broker gets nothing.
Deliver(q, channel, payload) ==
    [k \in DOMAIN q |-> IF withPrefix(k) = channel /\ netUp THEN Append(q[k], payload) ELSE q[k]]

\* p.redis.Publish(ctx, channel, payload) by the peer, q being the
\* subscription queues at that moment
Publish(q, channel, payload) ==
    /\ subq' = Deliver(q, channel, payload)
    /\ published' = Append(published, [channel |-> channel, payload |-> payload, ok |-> netUp])

Perms(S) == {f \in [1..Cardinality(S) -> S] : \A i, j \in 1..Cardinality(S) : f[i] = f[j] => i = j}

\* LocalState(): one part for each entry of the registry, in the order the
\* iteration over the map gives. A MarshalBinary error is logged and the
\* part is appended all the same, with the b that came with the error.
LocalStates == {MarshalFullState([i \in 1..Len(order) |->
                    [Key |-> order[i], Data |-> MarshalResult(states[order[i]]).b]]) :
                order \in Perms(DOMAIN states)}

\* fullStateSyncPublish(): LocalState() takes the read lock and counts the
\* message as sent, then the envelope is published; a publish error is logged
fullStateSyncPublish(q) ==
    /\ mtx = << >>
    /\ \E b \in LocalStates : Publish(q, withPrefix(fullStateChannel), b)
    /\ messagesSent' = [messagesSent EXCEPT !.full_state = @ + 1]

\* requestFullState publishing the key of the peer instead of its name
requestFullState_Prefixed == Publish(subq, withPrefix(fullStateChannelReq), withPrefix(self))

\* requestFullState()
requestFullState == Publish(subq, withPrefix(fullStateChannelReq), self)

----------------------------------------------------------------------------
(* Settle() *)

\* SettleObserve keeping nOkay when the count changed
SettleObserve_NoReset(n, np, nok, polls) ==
    IF nok >= NumOkayRequired
    THEN [brk |-> TRUE, nPeers |-> np, nOkay |-> nok, totalPolls |-> polls]
    ELSE [brk |-> FALSE, nPeers |-> n,
          nOkay |-> IF n = np THEN nok + 1 ELSE nok,
          totalPolls |-> polls + 1]

\* SettleObserve leaving the loop one poll earlier
SettleObserve_ExitsEarly(n, np, nok, polls) ==
    IF nok >= NumOkayRequired - 1
    THEN [brk |-> TRUE, nPeers |-> np, nOkay |-> nok, totalPolls |-> polls]
    ELSE [brk |-> FALSE, nPeers |-> n,
          nOkay |-> IF n = np THEN nok + 1 ELSE 0,
          totalPolls |-> polls + 1]

\* the body of the loop of Settle after a poll observed n members:
\* brk says that the loop is left
SettleObserve(n, np, nok, polls) ==
    IF nok >= NumOkayRequired
    THEN [brk |-> TRUE, nPeers |-> np, nOkay |-> nok, totalPolls |-> polls]
    ELSE [brk |-> FALSE, nPeers |-> n,
          nOkay |-> IF n = np THEN nok + 1 ELSE 0,
          totalPolls |-> polls + 1]

SettleObserved(n) ==
    LET r == SettleObserve(n, nPeers, nOkay, totalPolls)
    IN /\ obs' = Append(obs, n)
       /\ nPeers' = r.nPeers
       /\ nOkay' = r.nOkay
       /\ totalPolls' = r.totalPolls
       /\ spc' = IF r.brk THEN "request" ELSE "wait"
       /\ UNCHANGED <<readyc, readyCloses, sctx, settlePath>>

\* Settle is called
SettleCall ==
    /\ ~crashed
    /\ spc = "notcalled"
    /\ spc' = "wait"
    /\ UNCHANGED <<readyc, readyCloses, sctx, nPeers, nOkay, totalPolls, settleScan, obs, settlePath>>
    /\ UNCHANGED <<brokerVars, hbVars, memberVars, healthVars, lockVars, ctorVars, sdVars, waitVars, pubsubVars>>

\* case <-ctx.Done(): the gate is opened and Settle returns
SettleCtxDone ==
    /\ ~crashed
    /\ spc = "wait"
    /\ sctx # "live"
    /\ readyc' = "closed"
    /\ readyCloses' = readyCloses + 1
    /\ spc' = "done"
    /\ settlePath' = "cancelled"
    /\ UNCHANGED <<sctx, nPeers, nOkay, totalPolls, settleScan, obs>>
    /\ UNCHANGED <<brokerVars, hbVars, memberVars, healthVars, lockVars, ctorVars, sdVars, waitVars, pubsubVars>>

\* case <-time.After(interval): the SCAN of Members(). A SCAN error or an
\* empty reply makes Members() return the empty list at once.
SettlePollScan ==
    /\ ~crashed
    /\ spc = "wait"
    /\ Len(obs) < MaxPolls
    /\ \/ /\ ~netUp
          /\ SettleObserved(0)
          /\ UNCHANGED settleScan
       \/ /\ netUp
          /\ \E reply \in ScanReplies :
                IF reply = << >>
                THEN SettleObserved(0) /\ UNCHANGED settleScan
                ELSE /\ spc' = "mget"
                     /\ settleScan' = reply
                     /\ UNCHANGED <<readyc, readyCloses, sctx, nPeers, nOkay, totalPolls, obs, settlePath>>
    /\ UNCHANGED <<brokerVars, hbVars, memberVars, healthVars, lockVars, ctorVars, sdVars, waitVars, pubsubVars>>

\* the MGET of Members() and the rest of the loop body
SettlePollMGet ==
    /\ ~crashed
    /\ spc = "mget"
    /\ IF ~netUp \/ MembersPanics(settleScan, store)
       THEN /\ crashed' = TRUE
            /\ UNCHANGED <<prefix, self, clock, store, netUp, downSince, settleVars>>
       ELSE /\ SettleObserved(Len(Members(settleScan, store, clock)))
            /\ settleScan' = << >>
            /\ UNCHANGED brokerVars
    /\ UNCHANGED <<hbVars, memberVars, healthVars, lockVars, ctorVars, sdVars, waitVars, pubsubVars>>

\* after the loop: p.requestFullState()
SettleRequest ==
    /\ ~crashed
    /\ spc = "request"
    /\ requestFullState
    /\ spc' = "close"
    /\ UNCHANGED <<readyc, readyCloses, sctx, nPeers, nOkay, totalPolls, settleScan, obs, settlePath>>
    /\ UNCHANGED <<states, rpc, fpc, messagesSent, mergeLog, lastReq, remoteSent, wakeAt>>
    /\ UNCHANGED <<brokerVars, hbVars, memberVars, healthVars, lockVars, ctorVars, sdVars, waitVars>>

\* close(p.readyc) and return
SettleClose ==
    /\ ~crashed
    /\ spc = "close"
    /\ readyc' = "closed"
    /\ readyCloses' = readyCloses + 1
    /\ spc' = "done"
    /\ settlePath' = "normal"
    /\ UNCHANGED <<sctx, nPeers, nOkay, totalPolls, settleScan, obs>>
    /\ UNCHANGED <<brokerVars, hbVars, memberVars, healthVars, lockVars, ctorVars, sdVars, waitVars, pubsubVars>>

\* the caller of Settle cancels the context, or its deadline passes
SettleCtxCancel(reason) ==
    /\ sctx = "live"
    /\ sctx' = reason
    /\ UNCHANGED <<readyc, readyCloses, spc, nPeers, nOkay, totalPolls, settleScan, obs, settlePath>>
    /\ UNCHANGED <<brokerVars, hbVars, memberVars, healthVars, lockVars, ctorVars, sdVars, waitVars, pubsubVars>>

CtxErrors == {"canceled", "deadline"}

----------------------------------------------------------------------------
(* WaitReady() *)

\* WaitReady returning nil also when the context is done
WaitReadyResults_AlwaysNil(rc, ctx) ==
    {r \in {"nil"} : rc = "closed" \/ ctx \in CtxErrors}

\* what the select of WaitReady can return: ctx.Err() when ctx is done, nil
\* when readyc is closed, either of them when both hold
WaitReadyResults(rc, ctx) ==
    {r \in {"nil"} : rc = "closed"} \cup {r \in CtxErrors : r = ctx}

WaitReadyCall ==
    /\ ~crashed
    /\ wpc = "idle"
    /\ wpc' = "waiting"
    /\ UNCHANGED <<wctx, wret>>
    /\ UNCHANGED <<brokerVars, hbVars, memberVars, healthVars, lockVars, ctorVars, sdVars, settleVars, pubsubVars>>

WaitReadyReturn ==
    /\ ~crashed
    /\ wpc = "waiting"
    /\ \E r \in WaitReadyResults(readyc, wctx) : wret' = r
    /\ wpc' = "returned"
    /\ UNCHANGED wctx
    /\ UNCHANGED <<brokerVars, hbVars, memberVars, healthVars, lockVars, ctorVars, sdVars, settleVars, pubsubVars>>

\* the caller of WaitReady cancels the context, or its deadline passes
WaitCtxCancel(reason) ==
    /\ wctx = "live"
    /\ wctx' = reason
    /\ UNCHANGED <<wpc, wret>>
    /\ UNCHANGED <<brokerVars, hbVars, memberVars, healthVars, lockVars, ctorVars, sdVars, settleVars, pubsubVars>>

----------------------------------------------------------------------------
(* Receive loops *)

\* LoopTop taking the default arm although shutdownc is closed
LoopTop_IgnoresShutdown == "recv"

\* the select at the top of a receive loop: the shutdown arm returns, the
\* default arm starts the next ReceiveMessage
LoopTop == IF shutdownc = "closed" THEN "done" ELSE "recv"

Pop(q, k) == [q EXCEPT ![k] = Tail(@)]

\* a loop that goes on after a failed receive: the record of the failure is dropped
Forget(w, ch) == [x \in DOMAIN w \ {ch} |-> w[x]]

\* IgnoreRequest without the test for the own name
IgnoreRequest_Never(payload) == FALSE

\* fullStateReqReceiveLoop: one message. The payload is the name of the
\* requesting peer; the own request is ignored.
IgnoreRequest(payload) == payload = self

ReqReceive ==
    /\ ~crashed
    /\ rpc[fullStateChannelReq] = "recv"
    /\ subq[fullStateChannelReq] # << >>
    /\ Len(published) < MaxPublished
    /\ LET payload == Head(subq[fullStateChannelReq])
           q == Pop(subq, fullStateChannelReq)
       IN /\ IF IgnoreRequest(payload)
             THEN /\ subq' = q
                  /\ UNCHANGED <<messagesSent, published>>
             ELSE fullStateSyncPublish(q)
          /\ lastReq' = [payload |-> payload,
                         pubs |-> messagesSent'.full_state - messagesSent.full_state]
    /\ rpc' = [rpc EXCEPT ![fullStateChannelReq] = LoopTop]
    /\ wakeAt' = Forget(wakeAt, fullStateChannelReq)
    /\ UNCHANGED <<states, fpc, mergeLog, remoteSent>>
    /\ UNCHANGED <<brokerVars, hbVars, memberVars, healthVars, lockVars, ctorVars, sdVars, settleVars, waitVars>>

\* DeltaReceive merging into the state of the loop's own key
DeltaReceive_MergesOwnName(k) ==
    /\ ~crashed
    /\ k \in DOMAIN states
    /\ rpc[k] = "recv"
    /\ subq[k] # << >>
    /\ LET part == UnmarshalPart(Head(subq[k]))
           merge == part.ok /\ part.Key \in DOMAIN states
       IN /\ part.ok => mtx = << >>
          /\ mergeLog' = IF merge
                         THEN Append(mergeLog, [key |-> part.Key, data |-> part.Data])
                         ELSE mergeLog
          /\ states' = IF merge /\ ~MergeFails(part.Data)
                       THEN [states EXCEPT ![k] = MergeInto(@, part.Data)]
                       ELSE states
    /\ subq' = Pop(subq, k)
    /\ rpc' = [rpc EXCEPT ![k] = LoopTop]
    /\ wakeAt' = Forget(wakeAt, k)
    /\ UNCHANGED <<fpc, messagesSent, published, lastReq, remoteSent>>
    /\ UNCHANGED <<brokerVars, hbVars, memberVars, healthVars, lockVars, ctorVars, sdVars, settleVars, waitVars>>

\* receiveLoop(key, sub): one message of the channel of a state key
DeltaReceive(k) ==
    /\ ~crashed
    /\ k \in DOMAIN states
    /\ rpc[k] = "recv"
    /\ subq[k] # << >>
    /\ LET part == UnmarshalPart(Head(subq[k]))
           merge == part.ok /\ part.Key \in DOMAIN states
       IN /\ part.ok => mtx = << >>
          /\ mergeLog' = IF merge
                         THEN Append(mergeLog, [key |-> part.Key, data |-> part.Data])
                         ELSE mergeLog
          /\ states' = IF merge /\ ~MergeFails(part.Data)
                       THEN [states EXCEPT ![part.Key] = MergeInto(@, part.Data)]
                       ELSE states
    /\ subq' = Pop(subq, k)
    /\ rpc' = [rpc EXCEPT ![k] = LoopTop]
    /\ wakeAt' = Forget(wakeAt, k)
    /\ UNCHANGED <<fpc, messagesSent, published, lastReq, remoteSent>>
    /\ UNCHANGED <<brokerVars, hbVars, memberVars, healthVars, lockVars, ctorVars, sdVars, settleVars, waitVars>>

\* MergeParts going on with the next part after a Merge error
RECURSIVE MergeParts_GoesOn(_, _, _)
MergeParts_GoesOn(parts, st, log) ==
    IF parts = << >> THEN [states |-> st, log |-> log]
    ELSE LET part == parts[1]
         IN IF part.Key \notin DOMAIN st THEN MergeParts_GoesOn(Tail(parts), st, log)
            ELSE MergeParts_GoesOn(Tail(parts),
                                   IF MergeFails(part.Data) THEN st
                                   ELSE [st EXCEPT ![part.Key] = MergeInto(@, part.Data)],
                                   Append(log, [key |-> part.Key, data |-> part.Data]))

\* fullStateSyncReceiveLoop: the loop over the parts of one message. A part
\* with an unknown key is skipped; a Merge error ends the loop.
RECURSIVE MergeParts(_, _, _)
MergeParts(parts, st, log) ==
    IF parts = << >> THEN [states |-> st, log |-> log]
    ELSE LET part == parts[1]
         IN IF part.Key \notin DOMAIN st THEN MergeParts(Tail(parts), st, log)
            ELSE IF MergeFails(part.Data)
                 THEN [states |-> st, log |-> Append(log, [key |-> part.Key, data |-> part.Data])]
            ELSE MergeParts(Tail(parts),
                            [st EXCEPT ![part.Key] = MergeInto(@, part.Data)],
                            Append(log, [key |-> part.Key, data |-> part.Data]))

FullStateReceive ==
    /\ ~crashed
    /\ rpc[fullStateChannel] = "recv"
    /\ subq[fullStateChannel] # << >>
    /\ LET fs == UnmarshalFullState(Head(subq[fullStateChannel]))
           r == MergeParts(fs.Parts, states, mergeLog)
       IN /\ fs.ok => mtx = << >>
          /\ states' = IF fs.ok THEN r.states ELSE states
          /\ mergeLog' = IF fs.ok THEN r.log ELSE mergeLog
    /\ subq' = Pop(subq, fullStateChannel)
    /\ rpc' = [rpc EXCEPT ![fullStateChannel] = LoopTop]
    /\ wakeAt' = Forget(wakeAt, fullStateChannel)
    /\ UNCHANGED <<fpc, messagesSent, published, lastReq, remoteSent>>
    /\ UNCHANGED <<brokerVars, hbVars, memberVars, healthVars, lockVars, ctorVars, sdVars, settleVars, waitVars>>

\* what ReceiveMessage can fail with: a *net.OpError, or another error
RecvErrors == {"net", "other"}

\* one step of the clock while a loop sleeps: half the retry interval
SleepStep == networkRetryInterval \div 2

\* ReceiveFails retrying at once whatever the error
ReceiveFails_NoBackoff(ch, e) ==
    /\ ~crashed
    /\ ch \in DOMAIN rpc
    /\ rpc[ch] = "recv"
    /\ rpc' = [rpc EXCEPT ![ch] = LoopTop]
    /\ wakeAt' = [x \in DOMAIN wakeAt \cup {ch} |-> IF x = ch THEN clock ELSE wakeAt[x]]
    /\ UNCHANGED <<states, subq, fpc, messagesSent, published, mergeLog, lastReq, remoteSent>>
    /\ UNCHANGED <<brokerVars, hbVars, memberVars, healthVars, lockVars, ctorVars, sdVars, settleVars, waitVars>>

\* a receive loop: ReceiveMessage returns the error e. A network error is
\* logged and followed by time.Sleep(networkRetryInterval) and continue,
\* any other error is logged and followed by continue.
ReceiveFails(ch, e) ==
    /\ ~crashed
    /\ ch \in DOMAIN rpc
    /\ rpc[ch] = "recv"
    /\ rpc' = [rpc EXCEPT ![ch] = IF e = "net" THEN "sleep" ELSE LoopTop]
    /\ wakeAt' = [x \in DOMAIN wakeAt \cup {ch} |->
                    IF x # ch THEN wakeAt[x]
                    ELSE IF e = "net" THEN clock + networkRetryInterval ELSE clock]
    /\ UNCHANGED <<states, subq, fpc, messagesSent, published, mergeLog, lastReq, remoteSent>>
    /\ UNCHANGED <<brokerVars, hbVars, memberVars, healthVars, lockVars, ctorVars, sdVars, settleVars, waitVars>>

\* time.Sleep(networkRetryInterval) returns and the loop continues
SleepReturns(ch) ==
    /\ ~crashed
    /\ ch \in DOMAIN rpc
    /\ rpc[ch] = "sleep"
    /\ clock >= wakeAt[ch]
    /\ rpc' = [rpc EXCEPT ![ch] = LoopTop]
    /\ wakeAt' = Forget(wakeAt, ch)
    /\ UNCHANGED <<states, subq, fpc, messagesSent, published, mergeLog, lastReq, remoteSent>>
    /\ UNCHANGED <<brokerVars, hbVars, memberVars, healthVars, lockVars, ctorVars, sdVars, settleVars, waitVars>>

----------------------------------------------------------------------------
(* AddState and Broadcast *)

\* AddState replacing the registry by one that holds the new entry only
AddState_Replaces(k) ==
    /\ ~crashed
    /\ k \notin DOMAIN states
    /\ mtx = << >>
    /\ states' = [x \in {k} |-> {}]
    /\ subq' = [x \in DOMAIN subq \cup {k} |-> IF x = k THEN << >> ELSE subq[x]]
    /\ rpc' = [x \in DOMAIN rpc \cup {k} |-> IF x = k THEN LoopTop ELSE rpc[x]]
    /\ UNCHANGED <<fpc, messagesSent, published, mergeLog, lastReq, remoteSent, wakeAt>>
    /\ UNCHANGED <<brokerVars, hbVars, memberVars, healthVars, lockVars, ctorVars, sdVars, settleVars, waitVars>>

\* AddState(k), from p.mtx.Lock() to p.mtx.Unlock() in one step
AddState(k) ==
    /\ ~crashed
    /\ k \notin DOMAIN states
    /\ mtx = << >>
    /\ states' = [x \in DOMAIN states \cup {k} |-> IF x = k THEN {} ELSE states[x]]
    /\ subq' = [x \in DOMAIN subq \cup {k} |-> IF x = k THEN << >> ELSE subq[x]]
    /\ rpc' = [x \in DOMAIN rpc \cup {k} |-> IF x = k THEN LoopTop ELSE rpc[x]]
    /\ UNCHANGED <<fpc, messagesSent, published, mergeLog, lastReq, remoteSent, wakeAt>>
    /\ UNCHANGED <<brokerVars, hbVars, memberVars, healthVars, lockVars, ctorVars, sdVars, settleVars, waitVars>>

\* AddState(k) in two steps. The first: p.mtx.Lock() is acquired
AddStateLock(k) ==
    /\ ~crashed
    /\ k \notin DOMAIN states
    /\ mtx = << >>
    /\ mtx' = <<k>>
    /\ UNCHANGED <<brokerVars, hbVars, memberVars, healthVars, ctorVars, sdVars, settleVars, waitVars, pubsubVars>>

\* The second: p.states[key] = state, the subscription, go p.receiveLoop,
\* p.subs[key] = sub and p.mtx.Unlock()
AddStateWrite(k) ==
    /\ ~crashed
    /\ mtx = <<k>>
    /\ mtx' = << >>
    /\ states' = [x \in DOMAIN states \cup {k} |-> IF x = k THEN {} ELSE states[x]]
    /\ subq' = [x \in DOMAIN subq \cup {k} |-> IF x = k THEN << >> ELSE subq[x]]
    /\ rpc' = [x \in DOMAIN rpc \cup {k} |-> IF x = k THEN LoopTop ELSE rpc[x]]
    /\ UNCHANGED <<fpc, messagesSent, published, mergeLog, lastReq, remoteSent, wakeAt>>
    /\ UNCHANGED <<brokerVars, hbVars, memberVars, healthVars, ctorVars, sdVars, settleVars, waitVars>>

\* RedisChannel.channel of the handle AddState(k) returns
HandleChannel(k) == withPrefix(k)

\* the Key of the envelope Broadcast builds on the handle AddState(k) returned
EnvelopeKey(k) == HandleChannel(k)

\* the payload Broadcast(b) publishes on the handle AddState(k) returned
BroadcastPayload(k, b) == MarshalPart(EnvelopeKey(k), b)

\* RedisChannel.Broadcast(b)
Broadcast(k, b) ==
    /\ ~crashed
    /\ k \in DOMAIN states
    /\ Len(published) < MaxPublished
    /\ Publish(subq, HandleChannel(k), BroadcastPayload(k, b))
    /\ messagesSent' = IF netUp THEN [messagesSent EXCEPT !.update = @ + 1] ELSE messagesSent
    /\ UNCHANGED <<states, rpc, fpc, mergeLog, lastReq, remoteSent, wakeAt>>
    /\ UNCHANGED <<brokerVars, hbVars, memberVars, healthVars, lockVars, ctorVars, sdVars, settleVars, waitVars>>

----------------------------------------------------------------------------
(* fullStateSyncPublishLoop *)

\* case <-ticker.C
PublishLoopTick ==
    /\ ~crashed
    /\ fpc = "select"
    /\ Len(published) < MaxPublished
    /\ fullStateSyncPublish(subq)
    /\ UNCHANGED <<states, rpc, fpc, mergeLog, lastReq, remoteSent, wakeAt>>
    /\ UNCHANGED <<brokerVars, hbVars, memberVars, healthVars, lockVars, ctorVars, sdVars, settleVars, waitVars>>

\* case <-p.shutdownc
PublishLoopStop ==
    /\ ~crashed
    /\ fpc = "select"
    /\ shutdownc = "closed"
    /\ fpc' = "done"
    /\ UNCHANGED <<states, subq, rpc, messagesSent, published, mergeLog, lastReq, remoteSent, wakeAt>>
    /\ UNCHANGED <<brokerVars, hbVars, memberVars, healthVars, lockVars, ctorVars, sdVars, settleVars, waitVars>>

----------------------------------------------------------------------------
(* Shutdown() *)

\* heartbeatLoop, case <-p.shutdownc
HeartbeatStop ==
    /\ ~crashed
    /\ hbpc[self] = "select"
    /\ shutdownc = "closed"
    /\ hbpc' = [hbpc EXCEPT ![self] = "done"]
    /\ UNCHANGED <<brokerVars, memberVars, healthVars, lockVars, ctorVars, sdVars, settleVars, waitVars, pubsubVars>>

\* close(p.shutdownc)
ShutdownClose ==
    /\ ~crashed
    /\ sdpc = "notcalled"
    /\ shutdownc' = "closed"
    /\ sdpc' = "publish"
    /\ UNCHANGED delOk
    /\ UNCHANGED <<brokerVars, hbVars, memberVars, healthVars, lockVars, ctorVars, settleVars, waitVars, pubsubVars>>

\* Shutdown returning when its publish fails
ShutdownPublish_AbortsOnError ==
    /\ ~crashed
    /\ sdpc = "publish"
    /\ fullStateSyncPublish(subq)
    /\ sdpc' = IF netUp THEN "del" ELSE "returned"
    /\ UNCHANGED <<shutdownc, delOk>>
    /\ UNCHANGED <<states, rpc, fpc, mergeLog, lastReq, remoteSent, wakeAt>>
    /\ UNCHANGED <<brokerVars, hbVars, memberVars, healthVars, lockVars, ctorVars, settleVars, waitVars>>

\* p.fullStateSyncPublish()
ShutdownPublish ==
    /\ ~crashed
    /\ sdpc = "publish"
    /\ fullStateSyncPublish(subq)
    /\ sdpc' = "del"
    /\ UNCHANGED <<shutdownc, delOk>>
    /\ UNCHANGED <<states, rpc, fpc, mergeLog, lastReq, remoteSent, wakeAt>>
    /\ UNCHANGED <<brokerVars, hbVars, memberVars, healthVars, lockVars, ctorVars, settleVars, waitVars>>

\* p.redis.Del(ctx, p.withPrefix(p.name)); an error is logged
ShutdownDel ==
    /\ ~crashed
    /\ sdpc = "del"
    /\ store' = IF netUp THEN BrokerDel(store, PeerKey(self)) ELSE store
    /\ delOk' = netUp
    /\ sdpc' = "returned"
    /\ UNCHANGED shutdownc
    /\ UNCHANGED <<prefix, self, clock, netUp, downSince, crashed>>
    /\ UNCHANGED <<hbVars, memberVars, healthVars, lockVars, ctorVars, settleVars, waitVars, pubsubVars>>

----------------------------------------------------------------------------
(* Other peers: they run the same code with the same prefix *)

RemoteReaches(channel) ==
    /\ netUp
    /\ Len(remoteSent) < MaxRemote
    /\ \E x \in DOMAIN subq : withPrefix(x) = channel

\* another peer, which registered the state key k, calls Broadcast(b) on its handle
RemoteBroadcast(k, b) ==
    /\ RemoteReaches(HandleChannel(k))
    /\ subq' = Deliver(subq, HandleChannel(k), BroadcastPayload(k, b))
    /\ remoteSent' = Append(remoteSent, [kind |-> "update", key |-> k, data |-> b])
    /\ UNCHANGED <<states, rpc, fpc, messagesSent, published, mergeLog, lastReq, wakeAt>>
    /\ UNCHANGED <<brokerVars, hbVars, memberVars, healthVars, lockVars, ctorVars, sdVars, settleVars, waitVars>>

\* another peer q calls requestFullState
RemoteRequest(q) ==
    /\ q # self
    /\ RemoteReaches(withPrefix(fullStateChannelReq))
    /\ subq' = Deliver(subq, withPrefix(fullStateChannelReq), q)
    /\ remoteSent' = Append(remoteSent, [kind |-> "request", key |-> q, data |-> << >>])
    /\ UNCHANGED <<states, rpc, fpc, messagesSent, published, mergeLog, lastReq, wakeAt>>
    /\ UNCHANGED <<brokerVars, hbVars, memberVars, healthVars, lockVars, ctorVars, sdVars, settleVars, waitVars>>

\* another peer, whose state k holds the items of b, calls fullStateSyncPublish
RemoteFullState(k, b) ==
    /\ RemoteReaches(withPrefix(fullStateChannel))
    /\ subq' = Deliver(subq, withPrefix(fullStateChannel),
                       MarshalFullState(<<[Key |-> k, Data |-> b]>>))
    /\ remoteSent' = Append(remoteSent, [kind |-> "full_state", key |-> k, data |-> b])
    /\ UNCHANGED <<states, rpc, fpc, messagesSent, published, mergeLog, lastReq, wakeAt>>
    /\ UNCHANGED <<brokerVars, hbVars, memberVars, healthVars, lockVars, ctorVars, sdVars, settleVars, waitVars>>

\* "x": a state key only other peers register
ForeignKey == <<120>>

\* parts of the full-state envelopes of other peers: a part for "n" that
\* merges, a part for "s" whose Merge reports an error, a part with a key
\* the peer has not registered
PartChoices ==
    {[Key |-> <<110>>, Data |-> <<1>>],
     [Key |-> <<115>>, Data |-> <<0>>],
     [Key |-> ForeignKey, Data |-> <<1>>]}

\* another peer publishes a full-state envelope with the parts of parts
RemoteFullStateParts(parts) ==
    /\ RemoteReaches(withPrefix(fullStateChannel))
    /\ subq' = Deliver(subq, withPrefix(fullStateChannel), MarshalFullState(parts))
    /\ remoteSent' = Append(remoteSent, [kind |-> "full_state", key |-> << >>, data |-> parts])
    /\ UNCHANGED <<states, rpc, fpc, messagesSent, published, mergeLog, lastReq, wakeAt>>
    /\ UNCHANGED <<brokerVars, hbVars, memberVars, healthVars, lockVars, ctorVars, sdVars, settleVars, waitVars>>

\* payloads that arrive on the channel of a state key: an envelope for "n"
\* that merges, one for "n" whose Merge reports an error, one for "s", one
\* for a key the peer has not registered, and bytes that are no envelope
DeltaPayloads ==
    {MarshalPart(<<110>>, <<1>>),
     MarshalPart(<<110>>, <<0>>),
     MarshalPart(<<115>>, <<1>>),
     MarshalPart(ForeignKey, <<1>>),
     <<10>>}

\* another client publishes payload on the channel of the state key k
RemotePublish(k, payload) ==
    /\ RemoteReaches(HandleChannel(k))
    /\ subq' = Deliver(subq, HandleChannel(k), payload)
    /\ remoteSent' = Append(remoteSent, [kind |-> "raw", key |-> k, data |-> payload])
    /\ UNCHANGED <<states, rpc, fpc, messagesSent, published, mergeLog, lastReq, wakeAt>>
    /\ UNCHANGED <<brokerVars, hbVars, memberVars, healthVars, lockVars, ctorVars, sdVars, settleVars, waitVars>>

\* "n", "s": the state keys of a peer that registers two states
JoinKeys == {<<110>>, <<115>>}

\* contents of the states of an established peer
RemoteContents == {{}, {1}}

\* fullStateReqReceiveLoop of another peer q ignoring every request
RemoteIgnoresRequest_Always(q, payload) == TRUE

\* fullStateReqReceiveLoop of another peer q: data.Payload == p.name
RemoteIgnoresRequest(q, payload) == payload = q

\* LocalState() of another peer that registered the state keys of keys
RemoteLocalStates(keys) ==
    {MarshalFullState([i \in 1..Len(order) |->
            [Key |-> order[i], Data |-> MarshalBinary(c[order[i]])]]) :
        order \in Perms(keys), c \in [keys -> RemoteContents]}

\* the request loop of another peer q receives the request the peer
\* published and answers it with fullStateSyncPublish
RemoteAnswer(q) ==
    /\ q # self
    /\ \E i \in 1..Len(published) :
          /\ published[i].channel = withPrefix(fullStateChannelReq)
          /\ published[i].ok
          /\ ~RemoteIgnoresRequest(q, published[i].payload)
    /\ \A j \in 1..Len(remoteSent) : ~(remoteSent[j].kind = "answer" /\ remoteSent[j].key = q)
    /\ RemoteReaches(withPrefix(fullStateChannel))
    /\ \E b \in RemoteLocalStates(JoinKeys) :
          subq' = Deliver(subq, withPrefix(fullStateChannel), b)
    /\ remoteSent' = Append(remoteSent, [kind |-> "answer", key |-> q, data |-> << >>])
    /\ UNCHANGED <<states, rpc, fpc, messagesSent, published, mergeLog, lastReq, wakeAt>>
    /\ UNCHANGED <<brokerVars, hbVars, memberVars, healthVars, lockVars, ctorVars, sdVars, settleVars, waitVars>>

----------------------------------------------------------------------------
(* newRedisPeer *)

\* rdb.Ping(ctx): what cmd.Err() tells
PingResult == IF netUp THEN "ok" ELSE "err"

\* newRedisPeer going on after a PING that failed
ConstructorFails_Never(res) == FALSE

\* if cmd.Err() != nil { return nil, ... }
ConstructorFails(res) == res = "err"

\* newRedisPeer(cfg, ...): the PING; then, unless it failed, the two
\* subscriptions and the four loops
newRedisPeer ==
    /\ ctor = "notcalled"
    /\ pinged' = PingResult
    /\ IF ConstructorFails(pinged')
       THEN /\ ctor' = "failed"
            /\ UNCHANGED <<hbpc, subq, rpc, fpc>>
       ELSE /\ ctor' = "ok"
            /\ subq' = [k \in {fullStateChannel, fullStateChannelReq} |-> << >>]
            /\ rpc' = [k \in {fullStateChannel, fullStateChannelReq} |-> "recv"]
            /\ fpc' = "select"
            /\ hbpc' = [hbpc EXCEPT ![self] = "select"]
    /\ UNCHANGED <<states, messagesSent, published, mergeLog, lastReq, remoteSent, wakeAt>>
    /\ UNCHANGED <<brokerVars, memberVars, healthVars, lockVars, sdVars, settleVars, waitVars>>

----------------------------------------------------------------------------
(* Environment *)

\* Time passes; the broker drops the keys whose TTL ran out. A heartbeat SET
\* does not stay in flight for a whole clock step.
Tick ==
    /\ clock + TickStep <= MaxTicks * TickStep
    /\ \A p \in Names : hbpc[p] # "set"
    /\ clock' = clock + TickStep
    /\ store' = LiveStore(store, clock')
    /\ UNCHANGED <<prefix, self, netUp, downSince, crashed, hbVars, memberVars, healthVars, lockVars, ctorVars, sdVars, settleVars, waitVars, pubsubVars>>

\* the network between the peer and the broker goes down or comes back
NetFlip ==
    /\ netUp' = ~netUp
    /\ downSince' = IF netUp THEN clock ELSE 0
    /\ UNCHANGED <<prefix, self, clock, store, crashed, hbVars, memberVars, healthVars, lockVars, ctorVars, sdVars, settleVars, waitVars, pubsubVars>>

\* time passes while a receive loop sleeps
Elapse ==
    /\ clock + SleepStep <= MaxSleepSteps * SleepStep
    /\ clock' = clock + SleepStep
    /\ store' = LiveStore(store, clock')
    /\ UNCHANGED <<prefix, self, netUp, downSince, crashed, hbVars, memberVars, healthVars, lockVars, ctorVars, sdVars, settleVars, waitVars, pubsubVars>>

\* another peer q shuts down: the DEL of its key
RemoteDel(q) ==
    /\ q # self
    /\ hbpc[q] = "select"
    /\ PeerKey(q) \in DOMAIN store
    /\ store' = BrokerDel(store, PeerKey(q))
    /\ UNCHANGED <<prefix, self, clock, netUp, downSince, crashed>>
    /\ UNCHANGED <<hbVars, memberVars, healthVars, lockVars, ctorVars, sdVars, settleVars, waitVars, pubsubVars>>

----------------------------------------------------------------------------
(* Specifications *)

InitBroker ==
    /\ prefix \in {NormalizePrefix(cp) : cp \in CfgPrefixes}
    /\ self \in Names
    /\ clock = 0
    /\ store = << >>
    /\ netUp = TRUE
    /\ downSince = 0
    /\ crashed = FALSE

InitHeartbeat ==
    /\ hbpc = [p \in Names |-> "select"]

InitMembers ==
    /\ position = 0
    /\ positionFetchedAt = ZeroTime
    /\ ppc = "idle"
    /\ scanned = << >>
    /\ lastMembers = << >>
    /\ lastRet = 0

InitSettle ==
    /\ readyc = "open"
    /\ readyCloses = 0
    /\ spc = "notcalled"
    /\ sctx = "live"
    /\ nPeers = 0
    /\ nOkay = 0
    /\ totalPolls = 0
    /\ settleScan = << >>
    /\ obs = << >>
    /\ settlePath = "none"
    /\ wpc = "idle"
    /\ wctx = "live"
    /\ wret = "none"

\* newRedisPeer: no state registered, the two subscriptions made, the loops started
InitPubSub ==
    /\ states = << >>
    /\ subq = [k \in {fullStateChannel, fullStateChannelReq} |-> << >>]
    /\ rpc = [k \in {fullStateChannel, fullStateChannelReq} |-> "recv"]
    /\ fpc = "select"
    /\ messagesSent = [full_state |-> 0, update |-> 0]
    /\ published = << >>
    /\ mergeLog = << >>
    /\ lastReq = [payload |-> << >>, pubs |-> 0]
    /\ remoteSent = << >>
    /\ wakeAt = << >>

InitShutdown ==
    /\ shutdownc = "open"
    /\ sdpc = "notcalled"
    /\ delOk = FALSE

InitHealth ==
    /\ hpc = "idle"
    /\ hSize = 0
    /\ hScan = << >>
    /\ hMembers = << >>
    /\ hScore = 0

InitLock ==
    /\ mtx = << >>

\* newRedisPeer returned the peer: its PING succeeded
InitConstructed ==
    /\ ctor = "ok"
    /\ pinged = "ok"

\* before newRedisPeer is called: no peer, no subscription, no loop
InitUnbuilt ==
    /\ InitBroker /\ InitMembers /\ InitSettle /\ InitShutdown /\ InitHealth /\ InitLock
    /\ hbpc = [p \in Names |-> IF p = self THEN "notstarted" ELSE "select"]
    /\ states = << >>
    /\ subq = << >>
    /\ rpc = [k \in {fullStateChannel, fullStateChannelReq} |-> "notstarted"]
    /\ fpc = "notstarted"
    /\ messagesSent = [full_state |-> 0, update |-> 0]
    /\ published = << >>
    /\ mergeLog = << >>
    /\ lastReq = [payload |-> << >>, pubs |-> 0]
    /\ remoteSent = << >>
    /\ wakeAt = << >>
    /\ ctor = "notcalled"
    /\ pinged = "none"

Init ==
    /\ InitBroker /\ InitHeartbeat /\ InitMembers /\ InitSettle /\ InitPubSub /\ InitShutdown
    /\ InitHealth /\ InitLock /\ InitConstructed

\* membership and position
Next ==
    \/ Tick
    \/ NetFlip
    \/ \E p \in Names : HeartbeatTick(p)
    \/ \E p \in Names : HeartbeatSet(p)
    \/ \E q \in Names : RemoteDel(q)
    \/ PositionScan
    \/ PositionMGet

Spec == Init /\ [][Next]_vars

\* Settle polling a changing membership
NextSettle ==
    \/ NetFlip
    \/ \E p \in Names : HeartbeatTick(p)
    \/ \E p \in Names : HeartbeatSet(p)
    \/ SettleCall
    \/ SettleCtxDone
    \/ SettlePollScan
    \/ SettlePollMGet
    \/ SettleRequest
    \/ SettleClose
    \/ \E reason \in CtxErrors : SettleCtxCancel(reason)

SpecSettle == Init /\ [][NextSettle]_vars

\* the readiness gate: Settle and WaitReady
NextReady ==
    \/ NetFlip
    \/ HeartbeatTick(self)
    \/ HeartbeatSet(self)
    \/ SettleCall
    \/ SettleCtxDone
    \/ SettlePollScan
    \/ SettlePollMGet
    \/ SettleRequest
    \/ SettleClose
    \/ \E reason \in CtxErrors : SettleCtxCancel(reason)
    \/ WaitReadyCall
    \/ WaitReadyReturn
    \/ \E reason \in CtxErrors : WaitCtxCancel(reason)

SpecReady == Init /\ [][NextReady]_vars

\* full-state requests: the own request of Settle and those of other peers
NextRequest ==
    \/ NetFlip
    \/ SettleCall
    \/ SettleCtxDone
    \/ SettlePollScan
    \/ SettleRequest
    \/ SettleClose
    \/ \E reason \in CtxErrors : SettleCtxCancel(reason)
    \/ \E k \in StateKeys : AddState(k)
    \/ \E q \in Names : RemoteRequest(q)
    \/ ReqReceive
    \/ FullStateReceive

SpecRequest == Init /\ [][NextRequest]_vars

\* deltas: AddState, Broadcast and the receive loop of a state key
NextDelta ==
    \/ NetFlip
    \/ \E k \in StateKeys : AddState(k)
    \/ \E k \in StateKeys, b \in Datas : Broadcast(k, b)
    \/ \E k \in StateKeys, b \in Datas : RemoteBroadcast(k, b)
    \/ \E k \in StateKeys : DeltaReceive(k)

SpecDelta == Init /\ [][NextDelta]_vars

\* shutdown against the heartbeat loop and the publish loop
NextShutdown ==
    \/ NetFlip
    \/ HeartbeatTick(self)
    \/ HeartbeatSet(self)
    \/ HeartbeatStop
    \/ PublishLoopTick
    \/ PublishLoopStop
    \/ FullStateReceive
    \/ ShutdownClose
    \/ ShutdownPublish
    \/ ShutdownDel

SpecShutdown == Init /\ [][NextShutdown]_vars

\* the health score over a changing membership
NextHealth ==
    \/ Tick
    \/ NetFlip
    \/ \E p \in Names : HeartbeatTick(p)
    \/ \E p \in Names : HeartbeatSet(p)
    \/ HealthSize
    \/ HealthScan
    \/ HealthMGet

SpecHealth == Init /\ [][NextHealth]_vars

\* AddState against the request loop and the full-state loop: the lock
NextLock ==
    \/ NetFlip
    \/ SettleCall
    \/ SettleCtxDone
    \/ SettlePollScan
    \/ SettleRequest
    \/ SettleClose
    \/ \E reason \in CtxErrors : SettleCtxCancel(reason)
    \/ \E k \in StateKeys : AddStateLock(k)
    \/ \E k \in StateKeys : AddStateWrite(k)
    \/ \E q \in Names : RemoteRequest(q)
    \/ ReqReceive
    \/ FullStateReceive

SpecLock == Init /\ [][NextLock]_vars

\* construction, and what the loops do once they are started
NextConstruct ==
    \/ NetFlip
    \/ newRedisPeer
    \/ HeartbeatTick(self)
    \/ HeartbeatSet(self)
    \/ PublishLoopTick
    \/ \E q \in Names : RemoteRequest(q)
    \/ ReqReceive
    \/ FullStateReceive

SpecConstruct == InitUnbuilt /\ [][NextConstruct]_vars

\* Settle against Shutdown
NextLife ==
    \/ NetFlip
    \/ SettleCall
    \/ SettleCtxDone
    \/ SettlePollScan
    \/ SettleRequest
    \/ SettleClose
    \/ \E reason \in CtxErrors : SettleCtxCancel(reason)
    \/ ShutdownClose
    \/ ShutdownPublish
    \/ ShutdownDel

SpecLife == Init /\ [][NextLife]_vars

\* the registry: states are registered, full states are received, Settle
\* runs and Shutdown is called, in any order
NextRegistry ==
    \/ \E k \in JoinKeys : AddState(k)
    \/ \E k \in JoinKeys : RemoteFullState(k, <<1>>)
    \/ FullStateReceive
    \/ SettleCall
    \/ SettlePollScan
    \/ SettleRequest
    \/ SettleClose
    \/ ShutdownClose
    \/ ShutdownPublish
    \/ ShutdownDel

SpecRegistry == Init /\ [][NextRegistry]_vars

\* full-state envelopes of several parts, received by a peer with two states
NextFullState ==
    \/ \E k \in JoinKeys : AddState(k)
    \/ \E parts \in SeqsUpTo(PartChoices, MaxParts) : RemoteFullStateParts(parts)
    \/ FullStateReceive

SpecFullState == Init /\ [][NextFullState]_vars

\* LocalState over states that received items from other peers
NextLocalState ==
    \/ \E k \in JoinKeys : AddState(k)
    \/ \E k \in JoinKeys : RemoteFullState(k, <<2>>)
    \/ FullStateReceive
    \/ PublishLoopTick

SpecLocalState == Init /\ [][NextLocalState]_vars

\* the delta receive loops of two states against messages of every kind
NextDrop ==
    \/ \E k \in JoinKeys : AddState(k)
    \/ \E k \in JoinKeys, payload \in DeltaPayloads : RemotePublish(k, payload)
    \/ \E k \in JoinKeys : DeltaReceive(k)

SpecDrop == Init /\ [][NextDrop]_vars

\* the channels of the receive loops of a peer
LoopChannels == StateKeys \cup {fullStateChannel, fullStateChannelReq}

\* the three kinds of receive loop against receive errors
NextRecvError ==
    \/ Elapse
    \/ \E k \in StateKeys : AddState(k)
    \/ \E k \in StateKeys : RemoteBroadcast(k, <<1>>)
    \/ \E q \in Names : RemoteRequest(q)
    \/ \E k \in StateKeys : DeltaReceive(k)
    \/ ReqReceive
    \/ FullStateReceive
    \/ \E ch \in LoopChannels, e \in RecvErrors : ReceiveFails(ch, e)
    \/ \E ch \in LoopChannels : SleepReturns(ch)

SpecRecvError == Init /\ [][NextRecvError]_vars

\* Shutdown against the receive loops: messages before and after the
\* signal, receive errors after it, states added before and after it
NextStop ==
    \/ (\E ch \in DOMAIN rpc : rpc[ch] = "sleep") /\ Elapse
    \/ \E k \in StateKeys : AddState(k)
    \/ \E k \in StateKeys : RemoteBroadcast(k, <<1>>)
    \/ \E q \in Names : RemoteRequest(q)
    \/ \E k \in StateKeys : DeltaReceive(k)
    \/ ReqReceive
    \/ FullStateReceive
    \/ \E ch \in LoopChannels, e \in RecvErrors : shutdownc = "closed" /\ ReceiveFails(ch, e)
    \/ \E ch \in LoopChannels : SleepReturns(ch)
    \/ ShutdownClose
    \/ ShutdownPublish
    \/ ShutdownDel

SpecStop == Init /\ [][NextStop]_vars

\* a late joiner: the states are registered, then Settle runs with a context
\* that is not cancelled and the broker reachable; the established peer
\* heartbeats and answers the full-state request
NextJoin ==
    \/ \E p \in Names \ {self} : HeartbeatTick(p)
    \/ \E p \in Names \ {self} : HeartbeatSet(p)
    \/ \E k \in JoinKeys : spc = "notcalled" /\ AddState(k)
    \/ SettleCall
    \/ SettlePollScan
    \/ SettlePollMGet
    \/ SettleRequest
    \/ SettleClose
    \/ ReqReceive
    \/ FullStateReceive
    \/ \E q \in Names : RemoteAnswer(q)

\* the SettlePollMGet steps, told by what they do to the position of Settle:
\* the MGET of a poll returns and the loop body ends
SettleMGetReturns ==
    /\ ~crashed
    /\ spc = "mget"
    /\ spc' \in {"wait", "request"}

\* the FullStateReceive steps, told by what they do to the subscription:
\* the loop takes the message at the head of its queue
FullStateTaken ==
    /\ ~crashed
    /\ rpc[fullStateChannel] = "recv"
    /\ subq[fullStateChannel] # << >>
    /\ subq' = Pop(subq, fullStateChannel)

\* the timer of Settle fires and its calls return, the goroutines of the
\* receive loops are scheduled, the established peer handles the request it
\* received
SpecJoin ==
    /\ Init
    /\ [][NextJoin]_vars
    /\ WF_vars(SettlePollScan)
    /\ WF_spc(SettleMGetReturns)
    /\ WF_vars(SettleRequest)
    /\ WF_vars(SettleClose)
    /\ WF_vars(ReqReceive)
    /\ WF_subq(FullStateTaken)
    /\ \A q \in Names : WF_vars(RemoteAnswer(q))

----------------------------------------------------------------------------
(* Claims *)

\* C1 (SpecDelta): when another peer calls Broadcast(b) on its handle for the
\* state key k and the message reaches the peer's subscription for k, the
\* peer's receive loop invokes Merge(b) on its state registered under k.
\* Stated for the runs in which the loop has taken every delivered message.
C1_BroadcastMerged ==
    \A k \in DOMAIN states :
        subq[k] = << >> =>
            \A i \in 1..Len(remoteSent) :
                (remoteSent[i].kind = "update" /\ remoteSent[i].key = k) =>
                    [key |-> k, data |-> remoteSent[i].data] \in Range(mergeLog)

\* C2 (Spec): Position() returns the index of the peer's own entry in the
\* sorted member list whenever that entry is in the list.
C2_PositionIsIndex ==
    PeerKey(self) \in Range(lastMembers) =>
        lastRet = IndexOf(lastMembers, PeerKey(self), 1)

\* C3 (SpecShutdown): once Shutdown() has returned with its DEL succeeding,
\* the broker holds no key <prefix><self-name>.
C3_SelfKeyGone ==
    (sdpc = "returned" /\ delOk) => PeerKey(self) \notin DOMAIN store

\* a Position() call returns in this step, Members() having returned the empty list
PositionReturnsOnEmpty ==
    /\ PositionScan \/ PositionMGet
    /\ ppc' = "idle"
    /\ lastMembers' = << >>

\* C4 as claimed (Spec): a peer that held position v before an outage gets v
\* from every Position() call made while the outage has lasted <= 60 s, and 0
\* from every call once it has lasted > 60 s.
C4_OutageWindow ==
    [][(PositionReturnsOnEmpty /\ ~netUp /\ positionFetchedAt # ZeroTime) =>
          lastRet' = IF clock - downSince <= positionValidFor THEN position ELSE 0]_vars

\* C4 as amended (Spec): when Members() returns the empty list, Position()
\* returns the cached position if the last call that found the peer's own
\* entry was made less than 60 s ago, and 0 otherwise; once an outage has
\* lasted > 60 s every call returns 0.
C4_CachedWithinWindow ==
    [][PositionReturnsOnEmpty =>
          /\ lastRet' = IF clock - positionFetchedAt < positionValidFor THEN position ELSE 0
          /\ (~netUp /\ clock - downSince > positionValidFor) => lastRet' = 0
          /\ position' = position
          /\ positionFetchedAt' = positionFetchedAt]_vars

\* the peer is cut off and Position() returned the cached position 1
C4_Witness ==
    /\ ~netUp
    /\ ppc = "idle"
    /\ lastMembers = << >>
    /\ lastRet = 1
    /\ positionFetchedAt # ZeroTime

\* the number of PUBLISH commands of the peer on a channel
PublishedOn(channel) ==
    Cardinality({i \in 1..Len(published) : published[i].channel = channel})

\* C5 (SpecRequest): a received full-state request of another peer makes the
\* peer call fullStateSyncPublish exactly once, its own request makes it
\* publish nothing.
C5_OncePerRequest ==
    /\ lastReq.payload # << >> => lastReq.pubs = IF lastReq.payload = self THEN 0 ELSE 1
    /\ messagesSent.full_state = PublishedOn(withPrefix(fullStateChannel))
    /\ PublishedOn(withPrefix(fullStateChannel)) =
          Cardinality({i \in 1..Len(remoteSent) : remoteSent[i].kind = "request"})
          - Cardinality({i \in 1..Len(subq[fullStateChannelReq]) :
                            subq[fullStateChannelReq][i] # self})

\* the peer received its own request, and has answered a request of another peer
C5_Witness ==
    /\ lastReq.payload = self
    /\ lastReq.pubs = 0
    /\ messagesSent.full_state >= 1

\* poll i observed the count of the poll before it
SameAsPollBefore(i) == i >= 2 /\ obs[i] = obs[i - 1]

\* poll i observed the value nPeers had: the count of the poll before it, 0
\* for the first poll
SameAsPrevious(i) == obs[i] = IF i = 1 THEN 0 ELSE obs[i - 1]

\* C6 as claimed (SpecSettle): Settle returns only after three consecutive
\* polls that each observed the same count as the poll before it, or with
\* the context cancelled.
C6_ThreeUnchangedPolls ==
    spc = "done" =>
        \/ sctx # "live"
        \/ \E i \in 1..(Len(obs) - 2) :
              SameAsPollBefore(i) /\ SameAsPollBefore(i + 1) /\ SameAsPollBefore(i + 2)

\* C6 as amended (SpecSettle): Settle returns only after three consecutive
\* polls that each observed the same count as the poll before it, the first
\* poll being compared with the initial count 0, or with the context
\* cancelled; the poll at which it leaves the loop comes after these three.
C6_ThreeUnchanged ==
    /\ spc \in {"request", "close"} \/ settlePath = "normal" =>
          \E i \in 1..(Len(obs) - 3) :
              SameAsPrevious(i) /\ SameAsPrevious(i + 1) /\ SameAsPrevious(i + 2)
    /\ settlePath = "cancelled" => sctx # "live"
    /\ spc = "done" => settlePath # "none"

\* Settle returned by the normal path after the member count changed and settled
C6_Witness ==
    /\ spc = "done"
    /\ settlePath = "normal"
    /\ sctx = "live"
    /\ obs[1] # 0

\* the full-state requests with the peer's name the peer has sent
OwnRequests ==
    Cardinality({i \in 1..Len(published) :
                    /\ published[i].channel = withPrefix(fullStateChannelReq)
                    /\ published[i].payload = self})

GateInv ==
    /\ readyCloses = IF readyc = "closed" THEN 1 ELSE 0
    /\ (spc = "done") = (readyc = "closed")
    /\ spc = "done" => settlePath \in {"normal", "cancelled"}
    /\ spc = "close" \/ settlePath = "normal" =>
          OwnRequests = 1 /\ PublishedOn(withPrefix(fullStateChannelReq)) = 1
    /\ settlePath = "cancelled" => PublishedOn(withPrefix(fullStateChannelReq)) = 0

\* C7 (SpecSettle): when Settle has returned the gate is open and was opened
\* once; on the normal path one full-state request with the peer's name was
\* sent before the gate was opened, on the cancelled path none was sent; an
\* open gate stays open.
C7_GateOpenedOnce ==
    [][GateInv' /\ (readyc = "closed" => readyc' = "closed")]_vars

\* Settle returned by the normal path and its request reached the broker
C7_Witness ==
    /\ spc = "done"
    /\ settlePath = "normal"
    /\ readyc = "closed"
    /\ \E i \in 1..Len(published) : published[i].ok /\ published[i].payload = self

\* C8 (SpecReady): WaitReady returns nil only with the gate open, an error
\* only with its context done, the error being the context's; it does not
\* return with the gate closed and the context live.
C8_WaitReady ==
    /\ wpc = "returned" =>
          /\ wret \in {"nil"} \cup CtxErrors
          /\ wret = "nil" => readyc = "closed"
          /\ wret # "nil" => wctx # "live" /\ wret = wctx
    /\ wpc # "returned" => wret = "none"

\* WaitReady returned the context's error although the gate was open
C8_Witness ==
    /\ wpc = "returned"
    /\ wret = "deadline"
    /\ readyc = "closed"

\* C9 (Spec): every entry Members() returns is a key the broker holds at the
\* time of the query, its TTL not expired, with a timestamp t >= now - 60 s.
C9_MembersLive ==
    [][(PositionMGet /\ ~crashed') =>
          \A i \in 1..Len(lastMembers') :
              LET k == lastMembers'[i]
              IN /\ k \in DOMAIN store
                 /\ store[k].exp > clock
                 /\ DigitsValue(store[k].val) >= clock - heartbeatTimeout]_vars

\* Members() returned a list and left out a key of the SCAN reply
C9_Witness ==
    /\ ppc = "idle"
    /\ lastMembers # << >>
    /\ \E i \in 1..Len(scanned) : scanned[i] \notin Range(lastMembers)

\* C10 (Spec): the list Members() returns is in non-decreasing order and
\* holds no entry twice.
C10_SortedNoDuplicates ==
    \A i, j \in 1..Len(lastMembers) :
        i < j => lastMembers[i] # lastMembers[j] /\ ~StrLess(lastMembers[j], lastMembers[i])

\* the broker holds the key of the peer q and its timestamp is within the heartbeat timeout
Heartbeating(q) ==
    /\ PeerKey(q) \in DOMAIN store
    /\ DigitsValue(store[PeerKey(q)].val) >= clock - heartbeatTimeout

\* C11 as stated (Spec): once another peer q has written its heartbeat and
\* keeps it fresh, every Members() call the peer makes with the broker
\* reachable returns a list that holds q's entry. Stated for the calls that
\* begin and return in one step, the key being in the broker all along.
C11_EveryMembersCall ==
    [][(PositionScan /\ netUp /\ ppc' = "idle") =>
          \A q \in Names \ {self} :
              Heartbeating(q) => PeerKey(q) \in Range(lastMembers')]_vars

\* C11 (Spec): a Members() call whose SCAN reply lists the key of another
\* peer q returns a list that holds q's entry, provided the broker holds the
\* key at the MGET with a timestamp within the heartbeat timeout.
C11_ScannedPeerListed ==
    [][(PositionMGet /\ ~crashed') =>
          \A q \in Names \ {self} :
              (PeerKey(q) \in Range(scanned) /\ Heartbeating(q)) =>
                  PeerKey(q) \in Range(lastMembers')]_vars

\* Members() returned a list that holds the entry of another peer
C11_Witness ==
    /\ ppc = "idle"
    /\ \E q \in Names \ {self} : PeerKey(q) \in Range(lastMembers)

\* the broker holds the key k, its TTL not expired, with a timestamp older than the heartbeat timeout
Stale(k) ==
    /\ k \in DOMAIN store
    /\ store[k].exp > clock
    /\ DigitsValue(store[k].val) < clock - heartbeatTimeout

\* a GetHealthScore() call returns in this step
HealthReturns ==
    /\ HealthScan \/ HealthMGet
    /\ hpc' = "idle"

\* what a returning GetHealthScore() always satisfies: no stale key is in its
\* member list, and its result is max(0, size - members), never negative
HealthResult ==
    /\ \A k \in DOMAIN store : Stale(k) => k \notin Range(hMembers')
    /\ hScore' >= 0
    /\ LET diff == hSize - Len(hMembers')
       IN hScore' = IF diff > 0 THEN diff ELSE 0

Merged(k) == \E i \in 1..Len(mergeLog) : mergeLog[i].key = k

OwnDelivered(k) ==
    {i \in 1..Len(published) : published[i].ok /\ published[i].channel = HandleChannel(k)}

\* the Broadcast calls of other peers for k that reached the peer's subscription
RemoteDelivered(k) ==
    {j \in 1..Len(remoteSent) : remoteSent[j].kind = "update" /\ remoteSent[j].key = k}

\* C14 as stated (SpecDelta): Merge is never invoked on the peer's own state
\* because of a Broadcast of the peer itself: the peer makes no more Merge
\* calls than messages of other peers reached it.
C14_NoOwnMerge ==
    Len(mergeLog) <= Cardinality({j \in 1..Len(remoteSent) : remoteSent[j].kind = "update"})

\* C14 (SpecDelta): the delta receive loop has no self-filter. Once it has
\* taken every message, it has invoked Merge once for each message on the
\* channel of k, the peer's own included, if the key of the envelope is a
\* key of the registry, and not at all if it is not.
C14_NoSelfFilter ==
    \A k \in DOMAIN states :
        subq[k] = << >> =>
            Cardinality({i \in 1..Len(mergeLog) : mergeLog[i].key = EnvelopeKey(k)}) =
                IF EnvelopeKey(k) \in DOMAIN states
                THEN Cardinality(OwnDelivered(k)) + Cardinality(RemoteDelivered(k))
                ELSE 0

\* Merge was invoked on the peer's own state for its own Broadcast, no other
\* peer having sent anything
C14_Witness ==
    /\ remoteSent = << >>
    /\ mergeLog # << >>
    /\ \A k \in DOMAIN states : subq[k] = << >>

\* a step in which fullStateReqReceiveLoop or fullStateSyncReceiveLoop goes
\* round its loop and evaluates p.subs[...] for its next ReceiveMessage,
\* which both do without the lock
ReadsSubsUnlocked ==
    \/ ReqReceive /\ rpc'[fullStateChannelReq] = "recv"
    \/ FullStateReceive /\ rpc'[fullStateChannel] = "recv"

\* C15 (SpecLock): no receive loop reads the subs map without the lock while
\* AddState is between its Lock and its Unlock, where it writes the states
\* map and the subs map.
C15_MapAccessLocked ==
    [][ReadsSubsUnlocked => mtx = << >>]_vars

\* C16 (SpecLife): once Shutdown has been invoked, a Settle call still in
\* progress neither publishes a full-state request nor opens the readiness
\* gate: the peer does not become ready after its shutdown.
C16_ShutdownTerminal ==
    [][sdpc # "notcalled" =>
          /\ readyc' = readyc
          /\ PublishedOn(withPrefix(fullStateChannelReq))' =
                PublishedOn(withPrefix(fullStateChannelReq))]_vars

\* C18 (SpecRegistry): a key that is in the registry stays in it, whatever
\* AddState calls, received messages, Settle and Shutdown follow: no
\* operation deletes an entry of the registry.
C18_RegistryGrows ==
    [][\A k \in DOMAIN states : k \in DOMAIN states']_vars

\* both states are registered, a full state was merged, Settle and Shutdown
\* have returned
C18_Witness ==
    /\ DOMAIN states = JoinKeys
    /\ mergeLog # << >>
    /\ spc = "done"
    /\ sdpc = "returned"

\* one of the four loops of the constructor has been started
LoopsRunning ==
    \/ hbpc[self] # "notstarted"
    \/ fpc # "notstarted"
    \/ \E k \in DOMAIN rpc : rpc[k] # "notstarted"

\* C17 (SpecConstruct): if the PING of the constructor failed, the constructor
\* returned an error and no peer: there is no subscription, no loop was
\* started, no key was written and nothing was published. Loops run and
\* subscriptions exist only if the PING succeeded.
C17_NoPeerOnPingFailure ==
    /\ pinged = "err" =>
          /\ ctor = "failed"
          /\ subq = << >>
          /\ ~LoopsRunning
          /\ PeerKey(self) \notin DOMAIN store
          /\ published = << >>
    /\ (LoopsRunning \/ subq # << >>) => (pinged = "ok" /\ ctor = "ok")

\* the constructor failed on its PING and the broker is reachable again
C17_Witness ==
    /\ ctor = "failed"
    /\ pinged = "err"
    /\ netUp

\* C19 (SpecShutdown): Shutdown first closes shutdownc, changing nothing on
\* the broker; its next step publishes exactly one message, on
\* <prefix>full_state, and goes on to the DEL whether or not the publish
\* succeeded; its last step issues the DEL of <prefix><self-name>, publishes
\* nothing, and returns whether or not the DEL succeeded. No broker error
\* makes the peer panic.
C19_ShutdownOrder ==
    [][/\ sdpc' # "notcalled" => shutdownc' = "closed"
       /\ (sdpc = "notcalled" /\ sdpc' # sdpc) =>
             /\ sdpc' = "publish"
             /\ published' = published
             /\ store' = store
       /\ (sdpc = "publish" /\ sdpc' # sdpc) =>
             /\ sdpc' = "del"
             /\ Len(published') = Len(published) + 1
             /\ PublishedOn(withPrefix(fullStateChannel))' =
                  PublishedOn(withPrefix(fullStateChannel)) + 1
             /\ published'[Len(published')].ok = netUp
             /\ store' = store
             /\ ~crashed'
       /\ (sdpc = "del" /\ sdpc' # sdpc) =>
             /\ sdpc' = "returned"
             /\ published' = published
             /\ delOk' = netUp
             /\ netUp => PeerKey(self) \notin DOMAIN store'
             /\ ~crashed'
       /\ sdpc = "returned" => sdpc' = "returned"
      ]_vars

\* Shutdown has returned; its publish was the only one of the peer and
\* failed, its DEL was issued afterwards and succeeded
C19_Witness ==
    /\ sdpc = "returned"
    /\ Len(published) = 1
    /\ published[1].channel = withPrefix(fullStateChannel)
    /\ ~published[1].ok
    /\ delOk

\* Shutdown has returned, the heartbeat loop and the publish loop have
\* returned, and no message waits on a subscription of the peer
ShutdownQuiet ==
    /\ sdpc = "returned"
    /\ hbpc[self] = "done"
    /\ fpc = "done"
    /\ \A ch \in DOMAIN subq : subq[ch] = << >>

\* C20 (SpecShutdown): after Shutdown every loop of the peer terminates, a
\* receive loop also when no further message is delivered on its channel:
\* once Shutdown has returned, the timer loops are done and no message is
\* left to deliver, every receive loop has returned.
C20_LoopsTerminate ==
    ShutdownQuiet => \A ch \in DOMAIN rpc : rpc[ch] = "done"

\* the parts of the envelope at the head of the full-state subscription
HeadParts == UnmarshalFullState(Head(subq[fullStateChannel])).Parts

\* the parts of HeadParts whose key is in the registry
KnownParts == {i \in 1..Len(HeadParts) : HeadParts[i].Key \in DOMAIN states}

\* the first of them whose Merge reports an error; beyond the last part if none does
FirstError ==
    IF \E i \in KnownParts : MergeFails(HeadParts[i].Data)
    THEN CHOOSE i \in KnownParts :
            /\ MergeFails(HeadParts[i].Data)
            /\ \A j \in KnownParts : MergeFails(HeadParts[j].Data) => i <= j
    ELSE Len(HeadParts) + 1

\* the n-th index, in increasing order, of a set of indices
NthOf(S, n) == CHOOSE i \in S : Cardinality({j \in S : j <= i}) = n

\* C21 (SpecFullState): handling one full-state envelope, the loop invokes
\* Merge, in the order of the parts, on exactly the parts with a registered
\* key up to and including the first whose Merge reports an error; parts
\* with an unregistered key are skipped, no part after the error is merged,
\* the parts before it are in the states, and the loop goes on to its next
\* receive.
C21_FullStateParts ==
    [][(FullStateReceive /\ UnmarshalFullState(Head(subq[fullStateChannel])).ok) =>
          LET called == {i \in KnownParts : i <= FirstError}
              n == Cardinality(called)
          IN /\ Len(mergeLog') = Len(mergeLog) + n
             /\ SubSeq(mergeLog', 1, Len(mergeLog)) = mergeLog
             /\ \A j \in 1..n :
                   mergeLog'[Len(mergeLog) + j] =
                       [key |-> HeadParts[NthOf(called, j)].Key,
                        data |-> HeadParts[NthOf(called, j)].Data]
             /\ DOMAIN states' = DOMAIN states
             /\ \A k \in DOMAIN states :
                   states'[k] = states[k] \cup
                       UNION {Range(HeadParts[i].Data) :
                                i \in {x \in called : x < FirstError /\ HeadParts[x].Key = k}}
             /\ rpc'[fullStateChannel] = "recv"
             /\ ~crashed']_vars

\* an envelope whose second part failed to merge left its first part merged,
\* and a later envelope was merged after it
C21_Witness ==
    /\ Len(mergeLog) >= 3
    /\ ~MergeFails(mergeLog[1].data)
    /\ MergeFails(mergeLog[2].data)
    /\ ~MergeFails(mergeLog[3].data)
    /\ Len(remoteSent) >= 2
    /\ Len(remoteSent[1].data) = 2
    /\ remoteSent[2].data[1].Key = ForeignKey
    /\ subq[fullStateChannel] = << >>
\* the keys of the parts of the envelope the peer published last
LastEnvelopeKeys ==
    LET parts == UnmarshalFullState(published'[Len(published')].payload).Parts
    IN {parts[i].Key : i \in 1..Len(parts)}

\* C22 (SpecLocalState): the envelope LocalState() builds holds one part for
\* each registered key whose state's MarshalBinary succeeded, and no part for
\* a key whose state's MarshalBinary returned an error.
C22_LocalStateParts ==
    [][PublishLoopTick =>
          /\ UnmarshalFullState(published'[Len(published')].payload).ok
          /\ LastEnvelopeKeys = {k \in DOMAIN states : ~MarshalFails(states[k])}
          /\ Len(UnmarshalFullState(published'[Len(published')].payload).Parts) =
                Cardinality(LastEnvelopeKeys)]_vars
\* C23 (SpecDelta): the envelope Broadcast publishes through the handle of
\* AddState(k) is published on the channel <prefix>k and carries in its key
\* field the state key k, the key under which receivers look the state up.
C23_EnvelopeKeyIsStateKey ==
    \A i \in 1..Len(published) :
        \E k \in DOMAIN states :
            /\ published[i].channel = withPrefix(k)
            /\ UnmarshalPart(published[i].payload).ok
            /\ UnmarshalPart(published[i].payload).Key = k
\* the loop of the state key k handles the message at the head of its queue
DeltaHandled(k) == DeltaReceive(k) /\ k \in DOMAIN states /\ subq[k] # << >>

\* C24 (SpecDrop): a delta message that does not decode, or whose envelope
\* key is not in the registry, or whose Merge reports an error, is dropped
\* and changes no state; a message that merges changes the state registered
\* under its envelope key and no other; in each case exactly that message
\* leaves the queue, the loop goes on to its next receive and the peer does
\* not crash.
C24_OneMessageDropped ==
    [][\A k \in JoinKeys : DeltaHandled(k) =>
          LET part == UnmarshalPart(Head(subq[k]))
              known == part.ok /\ part.Key \in DOMAIN states
              dropped == ~known \/ MergeFails(part.Data)
          IN /\ dropped => states' = states
             /\ ~dropped => states' = [states EXCEPT ![part.Key] = @ \cup Range(part.Data)]
             /\ mergeLog' = IF known
                            THEN Append(mergeLog, [key |-> part.Key, data |-> part.Data])
                            ELSE mergeLog
             /\ subq'[k] = Tail(subq[k])
             /\ \A x \in DOMAIN subq \ {k} : subq'[x] = subq[x]
             /\ rpc'[k] = "recv"
             /\ ~crashed']_vars

\* bytes that are no envelope arrived first on the channel of "n", an
\* envelope followed and was merged, and the loop is receiving
C24_Witness ==
    /\ Len(remoteSent) = 2
    /\ remoteSent[1].key = <<110>> /\ ~UnmarshalPart(remoteSent[1].data).ok
    /\ remoteSent[2].key = <<110>>
    /\ <<110>> \in DOMAIN states
    /\ states[<<110>>] = {1}
    /\ subq[<<110>>] = << >>
    /\ rpc[<<110>>] = "recv"
\* the deltas other peers broadcast for k that the broker delivered to the
\* peer's subscription for k, in the order of delivery
DeltasDelivered(k) ==
    LET ForK(x) == x.kind = "update" /\ x.key = k
    IN SelectSeq(remoteSent, ForK)

\* C25 (SpecDelta): the peer invokes Merge for the deltas delivered on the
\* channel of a registered key k in the order of delivery and once for each,
\* on the state registered under k: a Broadcast(X) of another peer that was
\* delivered and taken from the queue is one Merge(X) on the peer's state
\* for k. Stated for the runs in which the peer itself broadcasts nothing.
C25_MergedInOrder ==
    \A k \in DOMAIN states :
        published = << >> =>
            /\ Len(mergeLog) + Len(subq[k]) = Len(DeltasDelivered(k))
            /\ \A i \in 1..Len(mergeLog) :
                  i <= Len(DeltasDelivered(k)) /\
                  mergeLog[i] = [key |-> k, data |-> DeltasDelivered(k)[i].data]
\* the step makes no Merge call and no publish and takes no message
NoMessageHandled ==
    /\ states' = states
    /\ mergeLog' = mergeLog
    /\ published' = published
    /\ messagesSent' = messagesSent
    /\ subq' = subq

\* the loop of the channel ch takes a message in this step
Receives(ch) == ch \in DOMAIN subq /\ Len(subq'[ch]) < Len(subq[ch])

\* C26 (SpecRecvError): a receive error in a delta, full-state or request
\* receive loop ends neither the loop nor the peer and causes no Merge and
\* no publish; after a network error the loop takes no message before
\* networkRetryInterval (10 s) has passed, after another error it is
\* receiving again at once.
C26_ReceiveErrors ==
    [][\A ch \in LoopChannels :
          /\ ReceiveFails(ch, "net") =>
                /\ NoMessageHandled
                /\ rpc'[ch] = "sleep"
                /\ wakeAt'[ch] = clock + networkRetryInterval
          /\ ReceiveFails(ch, "other") =>
                /\ NoMessageHandled
                /\ rpc'[ch] = "recv"
                /\ wakeAt'[ch] = clock
          /\ (Receives(ch) /\ ch \in DOMAIN wakeAt) => clock >= wakeAt[ch]
          /\ (ch \in DOMAIN rpc /\ rpc[ch] = "sleep" /\ clock < wakeAt[ch]) => rpc'[ch] = "sleep"
          /\ ch \in DOMAIN rpc' => rpc'[ch] # "done"
          /\ ~crashed']_vars

\* the full-state loop is half-way through its backoff after a network
\* error while a message waits on its subscription
C26_Witness ==
    /\ rpc[fullStateChannel] = "sleep"
    /\ clock = wakeAt[fullStateChannel] - SleepStep
    /\ subq[fullStateChannel] # << >>
\* C27 (Spec): a step of the membership query of Position() made while the
\* broker is unreachable, the SCAN or the MGET, does not crash the peer:
\* Members() returns a list and Position() returns.
C27_MembersSurvivesErrors ==
    [][((PositionScan \/ PositionMGet) /\ ~netUp) =>
          /\ ~crashed'
          /\ ppc' = "idle"]_vars
\* a Position() call returns in this step
PositionReturns ==
    /\ PositionScan \/ PositionMGet
    /\ ppc' = "idle"
    /\ ~crashed'

\* the step leaves p.position and p.positionFetchedAt as they are
CacheKept ==
    /\ position' = position
    /\ positionFetchedAt' = positionFetchedAt

\* C28 (Spec): a Position() call whose Members() list is non-empty and does
\* not hold the peer's own entry, or is empty while the cached position is
\* older than 60 s, returns 0 and leaves position and positionFetchedAt
\* unchanged; a call that writes the cache found the peer's own entry.
C28_CacheOnlyWhenFound ==
    [][PositionReturns =>
          /\ (lastMembers' # << >> /\ PeerKey(self) \notin Range(lastMembers')) =>
                lastRet' = 0 /\ CacheKept
          /\ (lastMembers' = << >> /\ clock - positionFetchedAt > positionValidFor) =>
                lastRet' = 0 /\ CacheKept
          /\ ~CacheKept => PeerKey(self) \in Range(lastMembers')]_vars

\* Position() returned 0 for a list without the peer's own entry while the
\* cache still holds the position 1 found by an earlier call
C28_Witness ==
    /\ ppc = "idle"
    /\ lastMembers # << >>
    /\ PeerKey(self) \notin Range(lastMembers)
    /\ lastRet = 0
    /\ position = 1
    /\ positionFetchedAt # ZeroTime
\* Settle has left its loop by the break
LeftByBreak == spc \in {"request", "close"} \/ settlePath = "normal"

\* C29 (SpecSettle): nPeers starting at 0, a Settle whose first three polls
\* observe zero members leaves its loop on its 4th poll, whatever that poll
\* observes, publishes a full-state request and opens the gate; for every
\* sequence of counts the loop is never left by the break before the 4th
\* poll, and the count of the poll that leaves it is not taken into nPeers.
C29_EmptySettles ==
    /\ LeftByBreak =>
          /\ Len(obs) >= NumOkayRequired + 1
          /\ totalPolls = Len(obs) - 1
          /\ nPeers = obs[Len(obs) - 1]
    /\ (Len(obs) > NumOkayRequired /\ \A i \in 1..NumOkayRequired : obs[i] = 0) =>
          /\ Len(obs) = NumOkayRequired + 1
          /\ LeftByBreak
          /\ settlePath # "cancelled"
          /\ spc \in {"close", "done"} => OwnRequests = 1
          /\ spc = "done" => readyc = "closed"

\* every poll observed zero members, the broker being unreachable at the
\* end, and Settle returned by the normal path on its 4th poll
C29_Witness ==
    /\ obs = <<0, 0, 0, 0>>
    /\ spc = "done"
    /\ settlePath = "normal"
    /\ readyc = "closed"
    /\ OwnRequests = 1
    /\ ~netUp
\* the receive loop of the channel ch makes a step
LoopSteps(ch) ==
    \/ Receives(ch)
    \/ \E e \in RecvErrors : ReceiveFails(ch, e)
    \/ SleepReturns(ch)

\* C30 (SpecStop): once shutdownc is closed, a receive loop that takes a
\* message returns after handling it, a loop whose receive fails returns at
\* its next iteration, if need be after its backoff, a loop that has returned
\* takes nothing more, and a loop started afterwards returns without
\* receiving: no new receive is started once the signal is set.
C30_NoReceiveAfterShutdown ==
    [][\A ch \in LoopChannels :
          /\ (shutdownc = "closed" /\ ch \in DOMAIN rpc /\ LoopSteps(ch)) =>
                rpc'[ch] = IF ReceiveFails(ch, "net") THEN "sleep" ELSE "done"
          /\ (ch \in DOMAIN rpc /\ rpc[ch] = "done") =>
                rpc'[ch] = "done" /\ Len(subq'[ch]) >= Len(subq[ch])
          /\ (shutdownc = "closed" /\ ch \notin DOMAIN rpc /\ ch \in DOMAIN rpc') =>
                rpc'[ch] = "done"
          /\ (ch \in DOMAIN rpc /\ rpc[ch] # "recv" /\ rpc'[ch] = "recv") =>
                shutdownc = "open"]_vars

\* Shutdown has returned; the delta loop handled the message it was waiting
\* for and returned, leaving a later message on its subscription
C30_Witness ==
    /\ sdpc = "returned"
    /\ StateKeys \subseteq DOMAIN rpc
    /\ \A k \in StateKeys : rpc[k] = "done" /\ subq[k] # << >>
    /\ mergeLog # << >>
====
